---- MODULE Spec2Model ----
(***************************************************************************)
(* The analysis workflow of the App component (src/index.tsx): the React   *)
(* state of the component, the browser's store of object URLs, and the     *)
(* async handler handleGenerate cut at its await points.  A handler sees   *)
(* the state of the render it was created in: handleGenerate keeps that    *)
(* render's values (its closure) across all of its awaits, while the other *)
(* handlers run to completion in the render that is current.               *)
(***************************************************************************)
EXTENDS Integers, Sequences, FiniteSets, TLC

VARIABLES
    inputType,          \* useState 'file' | 'url'
    url,                \* useState, a string (sequence of characters)
    file,               \* useState File | null
    result,             \* useState, the parsed payload or null
    isLoading,          \* useState boolean
    loadingMessage,     \* useState string
    error,              \* useState string
    analyzedVideoUrl,   \* useState object URL | null (0 is null)
    videoMetadata,      \* useState metadata | null
    activeTab,          \* useState tab name
    apiKey,             \* process.env.API_KEY: "valid", "invalid" or "missing"
    pc,                 \* the await handleGenerate is suspended at, or "idle"
    closure,            \* the render values handleGenerate captured
    fileToUpload,       \* local of handleGenerate
    liveUrls,           \* object URLs created and not yet revoked
    nextUrl,            \* the next fresh object URL
    calls,              \* remote calls the current run has issued, in order
    statuses,           \* asset states the current run's status fetches returned
    delays,             \* fixed delays the current run has waited
    runUrl,             \* object URL the current run created (0: none)
    thrown,             \* the value the current run's catch block caught
    startedFrom,        \* the outcome that stood when the current run started
    outcome,            \* how the last started run stands
    runs,               \* validated runs so far
    responseText,       \* response.text of the current run's generation call
    elapsedTime,        \* useState number, the seconds shown while loading
    interval,           \* number of intervals set and not cleared
    codec               \* an application of timestampToSeconds / formatDuration

vars == <<inputType, url, file, result, isLoading, loadingMessage, error,
          analyzedVideoUrl, videoMetadata, activeTab, apiKey, pc, closure,
          fileToUpload, liveUrls, nextUrl, calls, statuses, delays, runUrl,
          thrown, startedFrom, outcome, runs, responseText, elapsedTime,
          interval, codec>>

uiVars == <<inputType, url, file, result, isLoading, loadingMessage, error,
            analyzedVideoUrl, videoMetadata, activeTab>>

runVars == <<pc, closure, fileToUpload, calls, statuses, delays, runUrl,
             thrown, startedFrom, outcome, runs, responseText>>

timerVars == <<elapsedTime, interval>>

-----------------------------------------------------------------------------
(* Bounds of the model *)

MaxRuns == 3

MaxPolls == 2

MaxTicks == 1

\* The longest timestamp text enumerated, and the longest duration formatted.
MaxLen == 4

MaxSeconds == 3700

-----------------------------------------------------------------------------
(* Values *)

NoUrl == 0

NoFile == [name |-> <<>>, type |-> <<>>]

Null == [t |-> "null"]

VideoType == <<"v", "i", "d", "e", "o", "/", "m", "p", "4">>

AudioType == <<"a", "u", "d", "i", "o", "/", "m", "p", "3">>

TextType == <<"t", "e", "x", "t", "/", "h", "t", "m", "l">>

\* Every type starts with the empty prefix.
AnyPrefix == <<>>

VideoPrefix == <<"v", "i", "d", "e", "o", "/">>

AudioPrefix == <<"a", "u", "d", "i", "o", "/">>

Files ==
    { [name |-> <<"c", "l", "i", "p">>, type |-> VideoType],
      [name |-> <<"t", "a", "l", "k">>, type |-> AudioType],
      [name |-> <<"p", "a", "g", "e">>, type |-> TextType] }

BlobTypes == {VideoType, AudioType, TextType, <<>>}

Urls == { <<>>, <<" ">>, <<"a", "/", "v", "?", "q">>, <<" ", "a", "/">> }

AssetStates == {"PROCESSING", "ACTIVE", "FAILED", "STATE_UNSPECIFIED"}

Thrown ==
    { [isError |-> TRUE, message |-> "Failed to fetch"],
      [isError |-> FALSE, message |-> ""] }

AuthError == [isError |-> TRUE, message |-> "API key not valid"]

NoThrown == [isError |-> TRUE, message |-> ""]

\* No generation response received by the current run.
NoText == <<"(none)">>

\* No application of the time functions.
NoCodec == [stage |-> "none"]

-----------------------------------------------------------------------------
(* The user-facing strings of handleGenerate *)

MsgSelectFile == "Select a video or audio file to analyze."

MsgEnterUrl == "Enter the URL of the file to analyze."

\* The inner catch swallows the error and the run goes on without a file.
MsgFetchSwallowed == "There is no file to analyze."

MsgFetchFailed == "Could not fetch the file from the URL."

MsgNoFileToAnalyze == "There is no file to analyze."

MsgProcessingFailed == "Processing the file failed."

MsgNotReady(state) == "The file is not ready yet. (state: " \o state \o ")"

MsgUnexpected == "An unexpected problem occurred."

MsgDropRejected == "Only video or audio files can be added."

RetrySuffix == " Please try again shortly."

LoadFetching == "Fetching the file from the URL..."

LoadUploading == "Uploading the file..."

LoadReading == "The AI is reading the file..."

LoadAnalyzing == "The AI is analyzing the video..."

-----------------------------------------------------------------------------
(* Pure helpers *)

IsSpace(c) == c = " "

RECURSIVE TrimStart(_)
TrimStart(s) ==
    IF s # <<>> /\ IsSpace(Head(s)) THEN TrimStart(Tail(s)) ELSE s

RECURSIVE TrimEnd(_)
TrimEnd(s) ==
    IF s # <<>> /\ IsSpace(s[Len(s)]) THEN TrimEnd(SubSeq(s, 1, Len(s) - 1)) ELSE s

\* String.prototype.trim
Trim(s) == TrimEnd(TrimStart(s))

\* String.prototype.startsWith
StartsWith(s, prefix) ==
    /\ Len(s) >= Len(prefix)
    /\ SubSeq(s, 1, Len(prefix)) = prefix

\* String.prototype.lastIndexOf, 1-based; 0 when c does not occur
LastIndexOf(s, c) ==
    IF \E i \in 1..Len(s) : s[i] = c
    THEN CHOOSE i \in 1..Len(s) :
            s[i] = c /\ \A j \in (i + 1)..Len(s) : s[j] # c
    ELSE 0

\* s.split(c)[0]
BeforeFirst(s, c) ==
    IF \E i \in 1..Len(s) : s[i] = c
    THEN SubSeq(s, 1, (CHOOSE i \in 1..Len(s) :
                          s[i] = c /\ \A j \in 1..(i - 1) : s[j] # c) - 1)
    ELSE s

DefaultFileName ==
    <<"d", "o", "w", "n", "l", "o", "a", "d", "e", "d", "_", "f", "i", "l", "e">>

\* url.substring(url.lastIndexOf('/') + 1).split('?')[0] || 'downloaded_file'
FileName(u) ==
    LET base == BeforeFirst(SubSeq(u, LastIndexOf(u, "/") + 1, Len(u)), "?")
    IN  IF base = <<>> THEN DefaultFileName ELSE base

\* The validation at the head of handleGenerate: the message it sets, "" when
\* the input passes.
ValidationNoTrim(type, f, u) ==
    IF type = "file" /\ f = NoFile THEN MsgSelectFile
    ELSE IF type = "url" /\ u = <<>> THEN MsgEnterUrl
    ELSE ""

ValidationError(type, f, u) ==
    IF type = "file" /\ f = NoFile THEN MsgSelectFile
    ELSE IF type = "url" /\ Trim(u) = <<>> THEN MsgEnterUrl
    ELSE ""

\* cleanupVideoUrl, for the analyzedVideoUrl the calling handler's render saw:
\* the object URLs it revokes, and the analyzedVideoUrl it leaves when the
\* state currently holds `current`.
RevokesNothing(seen) == {}

Revoked(seen) == IF seen # NoUrl THEN {seen} ELSE {}

\* The URL is revoked and the state is left as it is.
CleanedUrlKept(seen, current) == current

CleanedUrl(seen, current) == IF seen # NoUrl THEN NoUrl ELSE current

NoMeta == [duration |-> <<>>, resolution |-> <<0, 0>>]

\* What the catch block shows for a thrown value.
ErrorTextNoSuffix(e) == IF e.isError THEN e.message ELSE MsgUnexpected

ErrorText(e) ==
    (IF e.isError THEN e.message ELSE MsgUnexpected) \o RetrySuffix

\* What the code after the polling loop does with the state the loop ended on.
VerdictFailedPasses(state) ==
    IF state = "PROCESSING" THEN "wait"
    ELSE IF state = "FAILED" THEN "generate"
    ELSE IF state # "ACTIVE" THEN "unexpected"
    ELSE "generate"

VerdictWaitsOnActive(state) ==
    IF state # "FAILED" /\ state # "STATE_UNSPECIFIED" THEN "wait"
    ELSE IF state = "FAILED" THEN "failed"
    ELSE "unexpected"

\* A loop that gives up after one delayed re-poll.
VerdictGivesUp(state) ==
    IF state = "PROCESSING"
    THEN (IF delays < 1 THEN "wait" ELSE "unexpected")
    ELSE IF state = "FAILED" THEN "failed"
    ELSE IF state # "ACTIVE" THEN "unexpected"
    ELSE "generate"

VerdictUnknownPasses(state) ==
    IF state = "PROCESSING" THEN "wait"
    ELSE IF state = "FAILED" THEN "failed"
    ELSE "generate"

StatusVerdict(state) ==
    IF state = "PROCESSING" THEN "wait"
    ELSE IF state = "FAILED" THEN "failed"
    ELSE IF state # "ACTIVE" THEN "unexpected"
    ELSE "generate"

-----------------------------------------------------------------------------
(* JSON.parse on a tokenised text: null, strings, and arrays and objects of *)
(* at most one member.                                                      *)

StringTokens == {"\"chapters\"", "\"transcript\"", "\"evaluation\"", "\"x\""}

ParseFailure == [ok |-> FALSE, val |-> Null, rest |-> <<>>]

RECURSIVE ParseValue(_)
ParseValue(ts) ==
    IF ts = <<>> THEN ParseFailure
    ELSE LET h == Head(ts)
             r == Tail(ts)
         IN  CASE h = "null" -> [ok |-> TRUE, val |-> Null, rest |-> r]
               [] h \in StringTokens ->
                    [ok |-> TRUE, val |-> [t |-> "string", s |-> h], rest |-> r]
               [] h = "[" ->
                    IF r # <<>> /\ Head(r) = "]"
                    THEN [ok |-> TRUE, val |-> [t |-> "array", items |-> <<>>],
                          rest |-> Tail(r)]
                    ELSE LET e == ParseValue(r)
                         IN  IF e.ok /\ e.rest # <<>> /\ Head(e.rest) = "]"
                             THEN [ok |-> TRUE,
                                   val |-> [t |-> "array", items |-> <<e.val>>],
                                   rest |-> Tail(e.rest)]
                             ELSE ParseFailure
               [] h = "{" ->
                    IF r # <<>> /\ Head(r) = "}"
                    THEN [ok |-> TRUE, val |-> [t |-> "object", keys |-> <<>>],
                          rest |-> Tail(r)]
                    ELSE IF Len(r) >= 2 /\ r[1] \in StringTokens /\ r[2] = ":"
                    THEN LET e == ParseValue(SubSeq(r, 3, Len(r)))
                         IN  IF e.ok /\ e.rest # <<>> /\ Head(e.rest) = "}"
                             THEN [ok |-> TRUE,
                                   val |-> [t |-> "object", keys |-> <<r[1]>>,
                                            member |-> e.val],
                                   rest |-> Tail(e.rest)]
                             ELSE ParseFailure
                    ELSE ParseFailure
               [] OTHER -> ParseFailure

\* A lenient parser: a text that is not one JSON value gives an empty object.
JSONParseLenient(text) ==
    LET p == ParseValue(SelectSeq(text, LAMBDA c : ~IsSpace(c)))
    IN  IF p.ok /\ p.rest = <<>> THEN [ok |-> TRUE, val |-> p.val]
        ELSE [ok |-> TRUE, val |-> [t |-> "object", keys |-> <<>>]]

\* JSON.parse skips the whitespace around tokens; the text must be one value.
JSONParse(text) ==
    LET p == ParseValue(SelectSeq(text, LAMBDA c : ~IsSpace(c)))
    IN  IF p.ok /\ p.rest = <<>> THEN [ok |-> TRUE, val |-> p.val]
        ELSE [ok |-> FALSE, val |-> Null]

\* response.text of the generation call: undefined, or a text.
TextUndefined == <<"undefined">>

ResponseTexts ==
    { <<"{", "}">>,
      <<" ", "{", "\"transcript\"", ":", "[", "\"x\"", "]", "}", " ">>,
      <<"{", "\"evaluation\"", ":", "\"x\"", "}">>,
      <<"{", "not", "json">>,
      <<"{", "\"chapters\"", ":", "[">>,
      <<"null">>,
      TextUndefined }

SyntaxError == [isError |-> TRUE, message |-> "Unexpected token in JSON"]

TypeError ==
    [isError |-> TRUE, message |-> "Cannot read properties of undefined"]

-----------------------------------------------------------------------------
(* formatDuration, on whole seconds *)

Digits == <<"0", "1", "2", "3", "4", "5", "6", "7", "8", "9">>

RECURSIVE NumberToString(_)
NumberToString(n) ==
    IF n < 10 THEN <<Digits[n + 1]>>
    ELSE NumberToString(n \div 10) \o <<Digits[(n % 10) + 1]>>

\* String(n), with no padding.
PadNone(n) == NumberToString(n)

\* String(n).padStart(2, '0')
PadStart2(n) == IF n < 10 THEN <<"0">> \o NumberToString(n) ELSE NumberToString(n)

\* The hours are never shown.
formatDurationNoHours(totalSeconds) ==
    IF totalSeconds < 0 THEN <<"0", "0", ":", "0", "0">>
    ELSE PadStart2((totalSeconds % 3600) \div 60) \o <<":">>
           \o PadStart2(totalSeconds % 60)

formatDuration(totalSeconds) ==
    IF totalSeconds < 0 THEN <<"0", "0", ":", "0", "0">>
    ELSE LET hours == totalSeconds \div 3600
             minutes == (totalSeconds % 3600) \div 60
             seconds == totalSeconds % 60
         IN  IF hours > 0
             THEN NumberToString(hours) \o <<":">> \o PadStart2(minutes)
                    \o <<":">> \o PadStart2(seconds)
             ELSE PadStart2(minutes) \o <<":">> \o PadStart2(seconds)

\* A timestamp as it arrives from the parsed response: a string, or a value
\* of another type (undefined, a number).
StringValue(chars) == [type |-> "string", chars |-> chars]

NonStrings ==
    { [type |-> "undefined", chars |-> <<>>],
      [type |-> "number", chars |-> <<>>] }

\* ts.split(':')
RECURSIVE Split(_)
Split(s) ==
    IF \E i \in 1..Len(s) : s[i] = ":"
    THEN LET i == CHOOSE k \in 1..Len(s) :
                     s[k] = ":" /\ \A j \in 1..(k - 1) : s[j] # ":"
         IN  <<SubSeq(s, 1, i - 1)>> \o Split(SubSeq(s, i + 1, Len(s)))
    ELSE <<s>>

IsDigit(c) == \E i \in 1..10 : Digits[i] = c

DigitValue(c) == (CHOOSE i \in 1..10 : Digits[i] = c) - 1

RECURSIVE DecimalValue(_)
DecimalValue(ds) ==
    IF ds = <<>> THEN 0
    ELSE DecimalValue(SubSeq(ds, 1, Len(ds) - 1)) * 10 + DigitValue(ds[Len(ds)])

NaN == [isNaN |-> TRUE, val |-> 0]

\* Number(part), for texts of digits, signs, spaces and other characters: the
\* text is trimmed; the empty text is 0; an optional sign followed by digits
\* is that integer; anything else is NaN.
Number(part) ==
    LET t == Trim(part)
        signed == t # <<>> /\ Head(t) \in {"-", "+"}
        ds == IF signed THEN Tail(t) ELSE t
    IN  IF t = <<>> THEN [isNaN |-> FALSE, val |-> 0]
        ELSE IF ds # <<>> /\ \A i \in 1..Len(ds) : IsDigit(ds[i])
        THEN [isNaN |-> FALSE,
              val |-> IF Head(t) = "-" THEN 0 - DecimalValue(ds)
                      ELSE DecimalValue(ds)]
        ELSE NaN

\* Only timestamps of two parts are converted.
timestampToSecondsNoHours(ts) ==
    IF ts.type # "string" \/ ts.chars = <<>> THEN 0
    ELSE LET parts == [i \in 1..Len(Split(ts.chars)) |->
                          Number(Split(ts.chars)[i])]
         IN  IF \E i \in 1..Len(parts) : parts[i].isNaN THEN 0
             ELSE IF Len(parts) = 2
             THEN parts[1].val * 60 + parts[2].val
             ELSE 0

timestampToSeconds(ts) ==
    IF ts.type # "string" \/ ts.chars = <<>> THEN 0
    ELSE LET parts == [i \in 1..Len(Split(ts.chars)) |->
                          Number(Split(ts.chars)[i])]
         IN  IF \E i \in 1..Len(parts) : parts[i].isNaN THEN 0
             ELSE IF Len(parts) = 3
             THEN parts[1].val * 3600 + parts[2].val * 60 + parts[3].val
             ELSE IF Len(parts) = 2
             THEN parts[1].val * 60 + parts[2].val
             ELSE 0

\* Durations and frame sizes of the videos the player loads.
VideoDurations == {65}

VideoSizes == {<<640, 360>>}

-----------------------------------------------------------------------------
(* Initial state: the first render of App *)

\* The locals of handleGenerate when no call of it is in flight.
NoClosure ==
    [inputType |-> "file", url |-> <<>>, file |-> NoFile,
     analyzedVideoUrl |-> NoUrl]

AppInit ==
    /\ inputType = "file"
    /\ url = <<>>
    /\ file = NoFile
    /\ result = Null
    /\ isLoading = FALSE
    /\ loadingMessage = ""
    /\ error = ""
    /\ analyzedVideoUrl = NoUrl
    /\ videoMetadata = NoMeta
    /\ activeTab = "chapters"
    /\ apiKey \in {"valid", "invalid", "missing"}
    /\ pc = "idle"
    /\ closure = NoClosure
    /\ fileToUpload = NoFile
    /\ liveUrls = {}
    /\ nextUrl = 1
    /\ calls = <<>>
    /\ statuses = <<>>
    /\ delays = 0
    /\ runUrl = NoUrl
    /\ thrown = NoThrown
    /\ startedFrom = "none"
    /\ outcome = "none"
    /\ runs = 0
    /\ responseText = NoText
    /\ elapsedTime = 0
    /\ interval = 0

Init == AppInit /\ codec = NoCodec

-----------------------------------------------------------------------------
(* handleGenerate *)

\* The SDK calls reject when the key is not a valid one.
SdkSucceeds == apiKey = "valid"

SdkThrown == IF apiKey = "valid" THEN Thrown ELSE {AuthError}

\* new GoogleGenAI({apiKey}): the browser build of the SDK throws from the
\* constructor when no key is given; other builds leave it to the first call.
ConstructorThrows == IF apiKey = "missing" THEN BOOLEAN ELSE {FALSE}

\* handleGenerate returns: its locals and the values it captured are gone.
Returned == closure' = NoClosure /\ fileToUpload' = NoFile

\* A finally block that clears isLoading only.
CatchKeepsMessage(e, live, current) ==
    /\ error' = ErrorText(e)
    /\ thrown' = e
    /\ liveUrls' = live \ Revoked(closure.analyzedVideoUrl)
    /\ analyzedVideoUrl' = CleanedUrl(closure.analyzedVideoUrl, current)
    /\ videoMetadata' = NoMeta
    /\ isLoading' = FALSE
    /\ UNCHANGED loadingMessage
    /\ pc' = "idle"
    /\ outcome' = "failed"
    /\ Returned

\* catch (e) { setError; cleanupVideoUrl() } finally { setIsLoading(false);
\* setLoadingMessage('') }, resumed with the object URLs `live` and the state
\* holding `current`.  cleanupVideoUrl is the one of the render handleGenerate
\* was created in: it tests that render's analyzedVideoUrl.
Catch(e, live, current) ==
    /\ error' = ErrorText(e)
    /\ thrown' = e
    /\ liveUrls' = live \ Revoked(closure.analyzedVideoUrl)
    /\ analyzedVideoUrl' = CleanedUrl(closure.analyzedVideoUrl, current)
    /\ videoMetadata' = NoMeta
    /\ isLoading' = FALSE
    /\ loadingMessage' = ""
    /\ pc' = "idle"
    /\ outcome' = "failed"
    /\ Returned

\* Lines 271-280: the playable object URL for a video, then the upload call.
Acquired(f) ==
    IF f = NoFile
    THEN /\ Catch([isError |-> TRUE, message |-> MsgNoFileToAnalyze],
                  liveUrls, analyzedVideoUrl)
         /\ UNCHANGED <<nextUrl, runUrl, calls>>
    ELSE /\ IF StartsWith(f.type, VideoPrefix)
            THEN /\ analyzedVideoUrl' = nextUrl
                 /\ liveUrls' = liveUrls \cup {nextUrl}
                 /\ nextUrl' = nextUrl + 1
                 /\ runUrl' = nextUrl
            ELSE UNCHANGED <<analyzedVideoUrl, liveUrls, nextUrl, runUrl>>
         /\ loadingMessage' = LoadUploading
         /\ calls' = Append(calls, "upload")
         /\ pc' = "upload"
         /\ fileToUpload' = f
         /\ UNCHANGED <<error, thrown, videoMetadata, isLoading, outcome,
                        closure>>

\* The generate button is disabled while isLoading.
NeverDisabled == FALSE

GenerateDisabled == isLoading

\* The timer effect, which React runs when a step changed isLoading: the
\* cleanup of the previous effect clears its interval; the body starts the
\* counter at 0 and an interval when isLoading is true, and in its else
\* branch tests its own, still null, interval.
useEffect ==
    IF isLoading' # isLoading
    THEN IF isLoading'
         THEN elapsedTime' = 0 /\ interval' = interval + 1
         ELSE interval' = interval - 1 /\ UNCHANGED elapsedTime
    ELSE UNCHANGED <<elapsedTime, interval>>

\* A validation placed after the reset of lines 239-244.
GenerateRejectedAfterReset ==
    /\ ~GenerateDisabled
    /\ ValidationError(inputType, file, url) # ""
    /\ error' = ValidationError(inputType, file, url)
    /\ result' = Null
    /\ activeTab' = "chapters"
    /\ liveUrls' = liveUrls \ Revoked(analyzedVideoUrl)
    /\ analyzedVideoUrl' = CleanedUrl(analyzedVideoUrl, analyzedVideoUrl)
    /\ videoMetadata' = NoMeta
    /\ UNCHANGED <<inputType, url, file, isLoading, loadingMessage, apiKey,
                   nextUrl>>
    /\ UNCHANGED runVars
    /\ useEffect
    /\ UNCHANGED codec

\* Validation fails: the message is set and the handler returns.
GenerateRejected ==
    /\ ~GenerateDisabled
    /\ ValidationError(inputType, file, url) # ""
    /\ error' = ValidationError(inputType, file, url)
    /\ UNCHANGED <<inputType, url, file, result, isLoading, loadingMessage,
                   analyzedVideoUrl, videoMetadata, activeTab, apiKey,
                   liveUrls, nextUrl>>
    /\ UNCHANGED runVars
    /\ useEffect
    /\ UNCHANGED codec

\* The values of the render in which handleGenerate was created.
Captured ==
    [inputType |-> inputType, url |-> url, file |-> file,
     analyzedVideoUrl |-> analyzedVideoUrl]

\* Lines 239-246, common to every validated run.
Reset ==
    /\ ~GenerateDisabled
    /\ runs < MaxRuns
    /\ ValidationError(inputType, file, url) = ""
    /\ isLoading' = TRUE
    /\ error' = ""
    /\ result' = Null
    /\ activeTab' = "chapters"
    /\ videoMetadata' = NoMeta
    /\ runs' = runs + 1
    /\ statuses' = <<>>
    /\ delays' = 0
    /\ thrown' = NoThrown
    /\ startedFrom' = outcome
    /\ responseText' = NoText
    /\ UNCHANGED <<inputType, url, file, apiKey>>

\* The constructor throws before the try block is entered.
GenerateCrashes ==
    /\ Reset
    /\ TRUE \in ConstructorThrows
    /\ loadingMessage' = ""
    /\ liveUrls' = liveUrls \ Revoked(analyzedVideoUrl)
    /\ analyzedVideoUrl' = CleanedUrl(analyzedVideoUrl, analyzedVideoUrl)
    /\ pc' = "idle"
    /\ outcome' = "crashed"
    /\ calls' = <<>>
    /\ runUrl' = NoUrl
    /\ Returned
    /\ UNCHANGED nextUrl
    /\ useEffect
    /\ UNCHANGED codec

\* url mode: up to the proxy fetch.
GenerateFromUrl ==
    /\ Reset
    /\ FALSE \in ConstructorThrows
    /\ inputType = "url"
    /\ loadingMessage' = LoadFetching
    /\ liveUrls' = liveUrls \ Revoked(analyzedVideoUrl)
    /\ analyzedVideoUrl' = CleanedUrl(analyzedVideoUrl, analyzedVideoUrl)
    /\ pc' = "fetch"
    /\ outcome' = "running"
    /\ calls' = <<"proxy">>
    /\ runUrl' = NoUrl
    /\ closure' = Captured
    /\ fileToUpload' = NoFile
    /\ UNCHANGED nextUrl
    /\ useEffect
    /\ UNCHANGED codec

\* file mode: up to the upload call.
GenerateFromFile ==
    /\ Reset
    /\ FALSE \in ConstructorThrows
    /\ inputType # "url"
    /\ closure' = Captured
    /\ fileToUpload' = file
    /\ outcome' = "running"
    /\ loadingMessage' = LoadUploading
    /\ calls' = <<"upload">>
    /\ pc' = "upload"
    /\ IF file # NoFile /\ StartsWith(file.type, VideoPrefix)
       THEN /\ analyzedVideoUrl' = nextUrl
            /\ liveUrls' = (liveUrls \ Revoked(analyzedVideoUrl)) \cup {nextUrl}
            /\ nextUrl' = nextUrl + 1
            /\ runUrl' = nextUrl
       ELSE /\ analyzedVideoUrl' = CleanedUrl(analyzedVideoUrl, analyzedVideoUrl)
            /\ liveUrls' = liveUrls \ Revoked(analyzedVideoUrl)
            /\ runUrl' = NoUrl
            /\ UNCHANGED nextUrl
    /\ useEffect
    /\ UNCHANGED codec

-----------------------------------------------------------------------------
(* handleGenerate resumed at each await *)

\* await fetch(proxyUrl): a rejection and a non-ok response both end in the
\* inner catch, which throws the acquisition error.
FetchReturns ==
    /\ pc = "fetch"
    /\ \E ok \in BOOLEAN :
         IF ok
         THEN /\ pc' = "blob"
              /\ UNCHANGED <<error, thrown, liveUrls, analyzedVideoUrl,
                             videoMetadata, isLoading, loadingMessage, outcome,
                             closure, fileToUpload>>
         ELSE Catch([isError |-> TRUE, message |-> MsgFetchFailed],
                    liveUrls, analyzedVideoUrl)
    /\ UNCHANGED <<inputType, url, file, result, activeTab, apiKey,
                   startedFrom, responseText,
                   nextUrl, calls, statuses, delays, runUrl, runs>>
    /\ useEffect
    /\ UNCHANGED codec

\* new File([blob], fileName, {type: blob.type}), with the url of the render
\* handleGenerate was created in.
DownloadedFileOfState(type) == [name |-> FileName(url), type |-> type]

DownloadedFile(type) == [name |-> FileName(closure.url), type |-> type]

\* await response.blob(), then new File([blob], fileName, {type: blob.type}).
BlobReturns ==
    /\ pc = "blob"
    /\ \/ /\ Catch([isError |-> TRUE, message |-> MsgFetchFailed],
                   liveUrls, analyzedVideoUrl)
          /\ UNCHANGED <<nextUrl, runUrl, calls>>
       \/ \E type \in BlobTypes : Acquired(DownloadedFile(type))
    /\ UNCHANGED <<inputType, url, file, result, activeTab, apiKey,
                   startedFrom, responseText,
                   statuses, delays, runs>>
    /\ useEffect
    /\ UNCHANGED codec

\* await ai.files.upload, then the first ai.files.get is issued.
UploadReturns ==
    /\ pc = "upload"
    /\ \/ \E e \in SdkThrown :
            /\ Catch(e, liveUrls, analyzedVideoUrl)
            /\ UNCHANGED calls
       \/ /\ SdkSucceeds
          /\ loadingMessage' = LoadReading
          /\ calls' = Append(calls, "status")
          /\ pc' = "get"
          /\ UNCHANGED <<error, thrown, liveUrls, analyzedVideoUrl,
                         videoMetadata, isLoading, outcome, closure,
                         fileToUpload>>
    /\ UNCHANGED <<inputType, url, file, result, activeTab, apiKey,
                   startedFrom, responseText,
                   nextUrl, statuses, delays, runUrl, runs>>
    /\ useEffect
    /\ UNCHANGED codec

\* await ai.files.get: the loop condition, and the checks after the loop.
GetReturns ==
    /\ pc = "get"
    /\ \/ \E e \in SdkThrown :
            /\ Catch(e, liveUrls, analyzedVideoUrl)
            /\ UNCHANGED <<calls, statuses, delays>>
       \/ /\ SdkSucceeds
          /\ \E state \in AssetStates :
               /\ state = "PROCESSING" => delays < MaxPolls
               /\ statuses' = Append(statuses, state)
               /\ CASE StatusVerdict(state) = "wait" ->
                         /\ pc' = "delay"
                         /\ delays' = delays + 1
                         /\ UNCHANGED <<error, thrown, liveUrls,
                                        analyzedVideoUrl, videoMetadata,
                                        isLoading, loadingMessage, outcome,
                                        calls, closure, fileToUpload>>
                    [] StatusVerdict(state) = "failed" ->
                         /\ Catch([isError |-> TRUE,
                                   message |-> MsgProcessingFailed],
                                  liveUrls, analyzedVideoUrl)
                         /\ UNCHANGED <<calls, delays>>
                    [] StatusVerdict(state) = "unexpected" ->
                         /\ Catch([isError |-> TRUE,
                                   message |-> MsgNotReady(state)],
                                  liveUrls, analyzedVideoUrl)
                         /\ UNCHANGED <<calls, delays>>
                    [] OTHER ->
                         /\ loadingMessage' = LoadAnalyzing
                         /\ calls' = Append(calls, "generate")
                         /\ pc' = "generate"
                         /\ UNCHANGED <<error, thrown, liveUrls,
                                        analyzedVideoUrl, videoMetadata,
                                        isLoading, outcome, delays,
                                        closure, fileToUpload>>
    /\ UNCHANGED <<inputType, url, file, result, activeTab, apiKey,
                   startedFrom, responseText,
                   nextUrl, runUrl, runs>>
    /\ useEffect
    /\ UNCHANGED codec

\* The 2000 ms timer of the loop body fires and the next ai.files.get is issued.
DelayElapses ==
    /\ pc = "delay"
    /\ pc' = "get"
    /\ calls' = Append(calls, "status")
    /\ UNCHANGED <<inputType, url, file, result, isLoading, loadingMessage,
                   error, analyzedVideoUrl, videoMetadata, activeTab, apiKey,
                   closure, fileToUpload, liveUrls, nextUrl, statuses, delays,
                   runUrl, thrown, startedFrom, outcome, runs,
                   responseText>>
    /\ useEffect
    /\ UNCHANGED codec

\* await ai.models.generateContent, response.text.trim(), JSON.parse,
\* setResult, and the finally block.
GenerateReturns ==
    /\ pc = "generate"
    /\ \/ \E e \in SdkThrown :
            /\ Catch(e, liveUrls, analyzedVideoUrl)
            /\ UNCHANGED <<result, responseText>>
       \/ /\ SdkSucceeds
          /\ \E text \in ResponseTexts :
               /\ responseText' = text
               /\ IF text = TextUndefined
                  THEN /\ Catch(TypeError, liveUrls, analyzedVideoUrl)
                       /\ UNCHANGED result
                  ELSE LET parsedJson == JSONParse(Trim(text))
                       IN  IF parsedJson.ok
                           THEN /\ result' = parsedJson.val
                                /\ isLoading' = FALSE
                                /\ loadingMessage' = ""
                                /\ pc' = "idle"
                                /\ outcome' = "done"
                                /\ Returned
                                /\ UNCHANGED <<error, thrown, liveUrls,
                                               analyzedVideoUrl, videoMetadata>>
                           ELSE /\ Catch(SyntaxError, liveUrls, analyzedVideoUrl)
                                /\ UNCHANGED result
    /\ UNCHANGED <<inputType, url, file, activeTab, apiKey, startedFrom,
                   nextUrl, calls, statuses, delays, runUrl, runs>>
    /\ useEffect
    /\ UNCHANGED codec

-----------------------------------------------------------------------------
(* The other handlers of App *)

\* The mode buttons are never disabled.
handleInputTypeChange ==
    \E newType \in {"file", "url"} :
        /\ inputType' = newType
        /\ error' = ""
        /\ result' = Null
        /\ file' = NoFile
        /\ url' = <<>>
        /\ activeTab' = "chapters"
        /\ liveUrls' = liveUrls \ Revoked(analyzedVideoUrl)
        /\ analyzedVideoUrl' = CleanedUrl(analyzedVideoUrl, analyzedVideoUrl)
        /\ videoMetadata' = NoMeta
        /\ UNCHANGED <<isLoading, loadingMessage, apiKey, nextUrl>>
        /\ UNCHANGED runVars
        /\ useEffect
        /\ UNCHANGED codec

\* The file input is rendered in file mode and disabled while loading.
handleFileChange ==
    /\ inputType = "file"
    /\ ~isLoading
    /\ \E selectedFile \in Files :
         /\ file' = selectedFile
         /\ error' = ""
         /\ result' = Null
         /\ activeTab' = "chapters"
         /\ liveUrls' = liveUrls \ Revoked(analyzedVideoUrl)
         /\ analyzedVideoUrl' = CleanedUrl(analyzedVideoUrl, analyzedVideoUrl)
         /\ videoMetadata' = NoMeta
    /\ UNCHANGED <<inputType, url, isLoading, loadingMessage, apiKey, nextUrl>>
    /\ UNCHANGED runVars
    /\ useEffect
    /\ UNCHANGED codec

\* The drop zone is rendered in file mode; a drop while loading is ignored.
handleDrop ==
    /\ inputType = "file"
    /\ ~isLoading
    /\ \E droppedFile \in Files :
         IF \/ StartsWith(droppedFile.type, VideoPrefix)
            \/ StartsWith(droppedFile.type, AudioPrefix)
         THEN /\ file' = droppedFile
              /\ error' = ""
              /\ result' = Null
              /\ activeTab' = "chapters"
              /\ liveUrls' = liveUrls \ Revoked(analyzedVideoUrl)
              /\ analyzedVideoUrl' = CleanedUrl(analyzedVideoUrl, analyzedVideoUrl)
              /\ videoMetadata' = NoMeta
         ELSE /\ error' = MsgDropRejected
              /\ UNCHANGED <<file, result, activeTab, liveUrls,
                             analyzedVideoUrl, videoMetadata>>
    /\ UNCHANGED <<inputType, url, isLoading, loadingMessage, apiKey, nextUrl>>
    /\ UNCHANGED runVars
    /\ useEffect
    /\ UNCHANGED codec

\* onChange of the url input, rendered in url mode and disabled while loading.
setUrl ==
    /\ inputType = "url"
    /\ ~isLoading
    /\ \E value \in Urls : url' = value
    /\ UNCHANGED <<inputType, file, result, isLoading, loadingMessage, error,
                   analyzedVideoUrl, videoMetadata, activeTab, apiKey,
                   liveUrls, nextUrl>>
    /\ UNCHANGED runVars
    /\ useEffect
    /\ UNCHANGED codec

\* onLoadedMetadata of the player, which exists while analyzedVideoUrl is set
\* and loads while that object URL is live.
handleVideoMetadata ==
    /\ analyzedVideoUrl \in liveUrls
    /\ \E duration \in VideoDurations, size \in VideoSizes :
         /\ size[1] > 0 /\ size[2] > 0
         /\ videoMetadata' = [duration |-> formatDuration(duration),
                              resolution |-> size]
    /\ UNCHANGED <<inputType, url, file, result, isLoading, loadingMessage,
                   error, analyzedVideoUrl, activeTab, apiKey, liveUrls,
                   nextUrl>>
    /\ UNCHANGED runVars
    /\ useEffect
    /\ UNCHANGED codec

\* The tabs of the results panel and the member of the result each one shows.
Tabs == {"chapters", "transcript", "cast", "brand", "evaluation"}

SectionKey(tab) ==
    CASE tab = "transcript" -> "\"transcript\""
      [] tab = "cast" -> "\"cast\""
      [] tab = "brand" -> "\"brandExposure\""
      [] tab = "evaluation" -> "\"evaluation\""
      [] OTHER -> "\"chapters\""

Undefined == [t |-> "undefined"]

\* value[key]
Member(value, key) ==
    IF value.t = "object" /\ value.keys = <<key>> THEN value.member
    ELSE Undefined

\* !v, for the values JSON.parse returns here (its strings are not empty)
Falsy(v) == v.t \in {"null", "undefined"}

\* v.length === 0
LengthIsZero(v) == v.t = "array" /\ v.items = <<>>

\* No tab button is ever disabled.
TabNeverDisabled(tab, value) == FALSE

\* The disabled attribute of the tab buttons.
TabDisabled(tab, value) ==
    CASE tab = "chapters" -> FALSE
      [] tab = "evaluation" -> Falsy(Member(value, SectionKey(tab)))
      [] OTHER -> \/ Falsy(Member(value, SectionKey(tab)))
                  \/ LengthIsZero(Member(value, SectionKey(tab)))

\* onClick of a tab button; the buttons are rendered while result is set.
setActiveTab ==
    /\ ~Falsy(result)
    /\ \E tab \in Tabs :
         /\ ~TabDisabled(tab, result)
         /\ activeTab' = tab
    /\ UNCHANGED <<inputType, url, file, result, isLoading, loadingMessage,
                   error, analyzedVideoUrl, videoMetadata, apiKey, liveUrls,
                   nextUrl>>
    /\ UNCHANGED runVars
    /\ useEffect
    /\ UNCHANGED codec

\* The interval callback of the timer effect: setElapsedTime(prev => prev + 1).
Tick ==
    /\ interval > 0
    /\ elapsedTime < MaxTicks
    /\ elapsedTime' = elapsedTime + 1
    /\ UNCHANGED <<uiVars, apiKey, liveUrls, nextUrl, runVars, interval, codec>>

-----------------------------------------------------------------------------

Next ==
    \/ GenerateRejected
    \/ GenerateCrashes
    \/ GenerateFromUrl
    \/ GenerateFromFile
    \/ FetchReturns
    \/ BlobReturns
    \/ UploadReturns
    \/ GetReturns
    \/ DelayElapses
    \/ GenerateReturns
    \/ handleInputTypeChange
    \/ handleFileChange
    \/ handleDrop
    \/ setUrl
    \/ handleVideoMetadata
    \/ setActiveTab
    \/ Tick

Spec == Init /\ [][Next]_vars

-----------------------------------------------------------------------------
(* The time functions on their own: timestampToSeconds as handleSeekToTime  *)
(* applies it to a timestamp of the result, formatDuration as               *)
(* handleVideoMetadata applies it to a duration, and timestampToSeconds     *)
(* applied to a formatted duration.                                         *)

appVars == <<uiVars, apiKey, liveUrls, nextUrl, runVars, timerVars>>

TimestampChars == {"0", "1", "5", ":", "-", "+", " ", "a"}

RECURSIVE TextsOfLength(_)
TextsOfLength(n) ==
    IF n = 0 THEN {<<>>}
    ELSE {<<c>> \o t : c \in TimestampChars, t \in TextsOfLength(n - 1)}

\* Timestamps of the scenarios, and a few more.
TimestampExamples ==
    { <<"0", "0", ":", "0", "0", ":", "0", "5">>,
      <<"1", ":", "3", "0">>,
      <<"1", "0", ":", "0", "0">>,
      <<"1", ":", "0", "5">>,
      <<"-", "1", ":", "3", "0">>,
      <<"1", ":">>,
      <<"0", "1", ":", "0", "2", ":", "0", "3">>,
      <<"2", ":", "7", "5">>,
      <<"1", ":", "2", ":", "3", ":", "4">>,
      <<"1", "2", ":", "3", "4", ":", "5", "6">> }

TimestampInputs ==
    {StringValue(t) : t \in UNION {TextsOfLength(n) : n \in 0..MaxLen}}
      \cup {StringValue(t) : t \in TimestampExamples}
      \cup NonStrings

\* Durations of ten hours and more.
LongDurations == {35999, 36000, 86399, 360000}

DurationInputs == (0 - 2)..MaxSeconds \cup LongDurations

CodecInit ==
    /\ AppInit
    /\ apiKey = "valid"
    /\ codec \in {[stage |-> "timestamp", ts |-> v] : v \in TimestampInputs}
             \cup {[stage |-> "seconds", ts |-> StringValue(<<>>),
                     given |-> TRUE, n |-> d] : d \in DurationInputs}

\* timestampToSeconds(time) of handleSeekToTime
SeekToTime ==
    /\ codec.stage = "timestamp"
    /\ codec' = [stage |-> "seconds", ts |-> codec.ts, given |-> FALSE,
                 n |-> timestampToSeconds(codec.ts)]
    /\ UNCHANGED appVars

\* formatDuration(totalSeconds)
ShowDuration ==
    /\ codec.stage = "seconds"
    /\ codec' = [stage |-> "text", ts |-> codec.ts, given |-> codec.given,
                 n |-> codec.n, text |-> formatDuration(codec.n)]
    /\ UNCHANGED appVars

\* timestampToSeconds of the formatted text
ReadBack ==
    /\ codec.stage = "text"
    /\ codec' = [stage |-> "again", ts |-> codec.ts, given |-> codec.given,
                 n |-> codec.n, text |-> codec.text,
                 back |-> timestampToSeconds(StringValue(codec.text))]
    /\ UNCHANGED appVars

CodecNext == SeekToTime \/ ShowDuration \/ ReadBack

CodecSpec == CodecInit /\ [][CodecNext]_vars

-----------------------------------------------------------------------------
(* Helpers of the properties *)

\* handleGenerate, from the click to its first await or return.
handleGenerate ==
    GenerateRejected \/ GenerateCrashes \/ GenerateFromUrl \/ GenerateFromFile

Last(s) == s[Len(s)]

Count(s, x) == Cardinality({i \in 1..Len(s) : s[i] = x})

OnlySpaces(s) == \A i \in 1..Len(s) : s[i] = " "

\* The input the validation is there to reject.
NothingToAnalyze ==
    \/ inputType = "file" /\ file = NoFile
    \/ inputType = "url" /\ OnlySpaces(url)

\* A step in which the run in flight ends in the catch block.
RunFails == pc # "idle" /\ pc' = "idle" /\ outcome' = "failed"

\* A step in which a validated run starts.
RunStarts == runs' = runs + 1

-----------------------------------------------------------------------------
(* C1: handleGenerate invoked in file mode without a file, or in url mode   *)
(* with an empty or all-whitespace url, sets a validation message and       *)
(* returns: isLoading stays false, no run starts and no remote call is      *)
(* issued.                                                                  *)

C1_ValidationFailsFast ==
    [][(NothingToAnalyze /\ handleGenerate) =>
          /\ error' \in {MsgSelectFile, MsgEnterUrl}
          /\ error' = (IF inputType = "file" THEN MsgSelectFile ELSE MsgEnterUrl)
          /\ ~isLoading'
          /\ pc' = "idle"
          /\ calls' = calls
          /\ runs' = runs
          /\ outcome' = outcome]_vars

C1_Witness ==
    /\ inputType = "url"
    /\ url = <<" ">>
    /\ error = MsgEnterUrl
    /\ ~isLoading
    /\ runs = 0
    /\ calls = <<>>

-----------------------------------------------------------------------------
(* C2: the remote calls of a validated run are issued in the order          *)
(* acquisition (a proxy fetch in url mode, none in file mode), upload, one  *)
(* or more status fetches, generation: no upload before the acquisition has *)
(* completed, no status fetch before the upload has returned, generation    *)
(* only after a status fetch returned ACTIVE, and a successful run has gone *)
(* through every stage.                                                     *)

C2_CallOrder ==
    outcome \in {"running", "done", "failed"} =>
        LET n == Len(calls)
            off == IF n >= 1 /\ calls[1] = "proxy" THEN 1 ELSE 0
        IN  /\ n >= 1
            /\ pc # "idle" => (off = 1 <=> closure.inputType = "url")
            /\ \A i \in 1..n :
                 /\ calls[i] = "proxy" <=> (i = 1 /\ off = 1)
                 /\ calls[i] = "upload" <=> i = off + 1
                 /\ calls[i] = "generate" =>
                      /\ i = n
                      /\ i >= off + 3
                      /\ Len(statuses) = n - off - 2
                      /\ Last(statuses) = "ACTIVE"
            /\ pc \in {"fetch", "blob"} => calls = <<"proxy">>
            /\ pc # "idle" /\ Count(calls, "upload") = 1 =>
                 fileToUpload # NoFile
            /\ pc = "upload" => Last(calls) = "upload"
            /\ Len(statuses) <= Count(calls, "status")
            /\ outcome = "done" =>
                 /\ n >= off + 3
                 /\ Last(calls) = "generate"
                 /\ calls[off + 1] = "upload"
                 /\ calls[off + 2] = "status"

C2_Witness ==
    /\ outcome = "done"
    /\ calls = <<"proxy", "upload", "status", "status", "generate">>

-----------------------------------------------------------------------------
(* C3: when the status fetches return k times PROCESSING and then ACTIVE,   *)
(* the run has waited exactly k delays, issued exactly k + 1 status fetches *)
(* and exactly one generation call; PROCESSING, PROCESSING, ACTIVE gives 2  *)
(* delayed re-polls.                                                        *)

C3_PollCount ==
    (/\ outcome \in {"running", "done", "failed"}
     /\ statuses # <<>>
     /\ Last(statuses) = "ACTIVE") =>
        /\ \A i \in 1..(Len(statuses) - 1) : statuses[i] = "PROCESSING"
        /\ delays = Len(statuses) - 1
        /\ Count(calls, "status") = Len(statuses)
        /\ Count(calls, "generate") = 1
        /\ statuses = <<"PROCESSING", "PROCESSING", "ACTIVE">> => delays = 2

C3_Witness ==
    /\ statuses = <<"PROCESSING", "PROCESSING", "ACTIVE">>
    /\ delays = 2
    /\ Count(calls, "status") = 3
    /\ pc = "generate"

-----------------------------------------------------------------------------
(* C4: when the polling loop ends on a status other than ACTIVE, the run    *)
(* ends failed in that step, with no generation call and result null; for   *)
(* FAILED the error is the processing-failure message, for any other status *)
(* the message that names the status.                                       *)

C4_BadStatusFails ==
    [][(/\ Len(statuses') = Len(statuses) + 1
        /\ Last(statuses') \notin {"PROCESSING", "ACTIVE"}) =>
          /\ pc' = "idle"
          /\ outcome' = "failed"
          /\ ~isLoading'
          /\ Count(calls', "generate") = 0
          /\ result' = Null
          /\ error' = (IF Last(statuses') = "FAILED"
                       THEN MsgProcessingFailed
                       ELSE MsgNotReady(Last(statuses'))) \o RetrySuffix]_vars

C4_Witness ==
    /\ outcome = "failed"
    /\ pc = "idle"
    /\ statuses = <<"PROCESSING", "STATE_UNSPECIFIED">>
    /\ error = MsgNotReady("STATE_UNSPECIFIED") \o RetrySuffix
    /\ result = Null
    /\ Count(calls, "generate") = 0

-----------------------------------------------------------------------------
(* C5: when a run fails after it created a playable object URL, that URL is *)
(* revoked and analyzedVideoUrl is null once the run has ended, whatever    *)
(* analyzedVideoUrl was when the run started.                               *)

C5_FailedRunReleasesUrl ==
    (pc = "idle" /\ outcome = "failed" /\ runUrl # NoUrl) =>
        /\ runUrl \notin liveUrls
        /\ analyzedVideoUrl = NoUrl

-----------------------------------------------------------------------------
(* C6: in every reachable state at most one object URL created by the app   *)
(* is live.                                                                 *)

C6_AtMostOneLiveUrl == Cardinality(liveUrls) <= 1

-----------------------------------------------------------------------------
(* C7: a stage error is caught and shown as the thrown Error's message, or  *)
(* the generic message for a value that is no Error, followed by the retry  *)
(* suffix; the failing step issues no call and ends the run, no call is     *)
(* issued between runs, and within a run the proxy fetch, the upload and    *)
(* the generation call are each issued at most once.                        *)

C7_StageErrorsCaught ==
    [][/\ RunFails =>
            /\ error' = (IF thrown'.isError THEN thrown'.message
                         ELSE MsgUnexpected) \o RetrySuffix
            /\ calls' = calls
            /\ ~isLoading'
       /\ (pc = "idle" /\ calls' # calls) => RunStarts
       /\ Count(calls', "proxy") <= 1
       /\ Count(calls', "upload") <= 1
       /\ Count(calls', "generate") <= 1]_vars

C7_Witness ==
    /\ outcome = "failed"
    /\ pc = "idle"
    /\ thrown = [isError |-> FALSE, message |-> ""]
    /\ error = MsgUnexpected \o RetrySuffix
    /\ calls = <<"proxy", "upload", "status", "generate">>

-----------------------------------------------------------------------------
(* C8: under fairness of the run's steps, with every remote call returning  *)
(* or throwing and the asset leaving PROCESSING, a run that passed          *)
(* validation ends: isLoading returns to false.                             *)

FairSpec ==
    /\ Spec
    /\ WF_vars(FetchReturns)
    /\ WF_vars(BlobReturns)
    /\ WF_vars(UploadReturns)
    /\ WF_vars(GetReturns)
    /\ WF_vars(DelayElapses)
    /\ WF_vars(GenerateReturns)

C8_RunsEnd == isLoading ~> ~isLoading

-----------------------------------------------------------------------------
(* C9: with a missing or invalid API key a started run ends failed, with    *)
(* isLoading cleared.                                                       *)

C9_BadKeyFailsRun ==
    (apiKey # "valid" /\ pc = "idle" /\ outcome # "none") =>
        /\ outcome = "failed"
        /\ ~isLoading

-----------------------------------------------------------------------------
(* C10: the step that starts a validated run, which runs up to the run's    *)
(* first remote call, leaves result null and error empty, has revoked the   *)
(* object URL analyzedVideoUrl held and has taken it out of the state,      *)
(* which then holds null or the URL the run itself created; this is so      *)
(* from the initial state, after a successful run and after a failed run.   *)

C10_StartClearsPreviousRun ==
    [][(RunStarts /\ outcome' = "running") =>
          /\ startedFrom' \in {"none", "done", "failed"}
          /\ result' = Null
          /\ error' = ""
          /\ analyzedVideoUrl \notin liveUrls'
          /\ analyzedVideoUrl' \in {NoUrl, runUrl'}
          /\ analyzedVideoUrl # NoUrl => analyzedVideoUrl' # analyzedVideoUrl
          /\ Len(calls') = 1]_vars

C10_Witness ==
    /\ outcome = "running"
    /\ startedFrom = "done"
    /\ Len(calls) = 1
    /\ closure.analyzedVideoUrl # NoUrl
    /\ closure.analyzedVideoUrl \notin liveUrls
    /\ analyzedVideoUrl = runUrl
    /\ result = Null
    /\ error = ""

-----------------------------------------------------------------------------
(* C11: at the step that ends a validated run exactly one of two outcomes   *)
(* holds afterwards: success (result is the parsed payload, error is        *)
(* empty) or failure (error is non-empty, result is null); never both set,  *)
(* never neither.                                                           *)

\* A step in which a validated run ends: handleGenerate returns or throws.
RunEnds ==
    /\ pc # "idle" \/ RunStarts
    /\ pc' = "idle"
    /\ outcome' \in {"done", "failed", "crashed"}

ResultSet == result # Null /\ error = ""

ErrorSet == error # "" /\ result = Null

C11_ExactlyOneOutcome ==
    [][RunEnds => (ResultSet' /\ ~ErrorSet') \/ (ErrorSet' /\ ~ResultSet')]_vars

-----------------------------------------------------------------------------
(* C12: polling has no retry ceiling.  Whatever the number of PROCESSING    *)
(* answers received so far, a status fetch that returns PROCESSING leaves   *)
(* the run waiting for the delay before the next status fetch, still        *)
(* loading, not failed and with no generation call issued; the delay is     *)
(* followed by another status fetch; and the run leaves the waiting phase   *)
(* only in a step where a status fetch returns a status other than          *)
(* PROCESSING or throws.                                                    *)

\* The status fetch in flight returns `state`.
StatusReturns(state) ==
    /\ pc = "get"
    /\ statuses' = Append(statuses, state)

Waiting == pc \in {"get", "delay"}

C12_PollsWithoutCeiling ==
    [][/\ StatusReturns("PROCESSING") =>
            /\ pc' = "delay"
            /\ delays' = delays + 1
            /\ \A i \in 1..Len(statuses') : statuses'[i] = "PROCESSING"
            /\ delays' = Len(statuses')
            /\ outcome' = "running"
            /\ isLoading'
            /\ error' = ""
            /\ calls' = calls
            /\ Count(calls', "generate") = 0
       /\ (pc = "delay" /\ pc' # "delay") =>
            /\ pc' = "get"
            /\ calls' = Append(calls, "status")
            /\ statuses' = statuses
       /\ (Waiting /\ ~Waiting') =>
            /\ pc = "get"
            /\ \/ \E state \in AssetStates \ {"PROCESSING"} :
                    StatusReturns(state)
               \/ statuses' = statuses /\ thrown' \in SdkThrown
                  /\ outcome' = "failed"]_vars

\* The largest number of PROCESSING answers the environment gives.
C12_Witness ==
    /\ pc = "delay"
    /\ delays = MaxPolls
    /\ Len(statuses) = MaxPolls
    /\ \A i \in 1..Len(statuses) : statuses[i] = "PROCESSING"
    /\ outcome = "running"
    /\ isLoading
    /\ Count(calls, "generate") = 0

-----------------------------------------------------------------------------
(* C13: when the text of the generation response is not valid JSON, such as *)
(* {not json or a truncated object, the step that receives it ends the run  *)
(* failed, with the parse error's message (and the retry suffix) in error,  *)
(* result null and isLoading cleared: nothing of the text is stored.        *)

\* Response texts that are not one JSON value.
InvalidTexts ==
    { <<"{", "not", "json">>,
      <<"{", "\"chapters\"", ":", "[">> }

C13_BadJsonFails ==
    [][(pc = "generate" /\ responseText' \in InvalidTexts) =>
          /\ pc' = "idle"
          /\ outcome' = "failed"
          /\ thrown' = SyntaxError
          /\ error' = SyntaxError.message \o RetrySuffix
          /\ result' = Null
          /\ ~isLoading']_vars

C13_Witness ==
    /\ responseText = <<"{", "not", "json">>
    /\ calls # <<>> /\ Last(calls) = "generate"
    /\ outcome = "failed"
    /\ error = SyntaxError.message \o RetrySuffix
    /\ result = Null

-----------------------------------------------------------------------------
(* C14: runs never overlap.  handleGenerate is entered only while isLoading *)
(* is false, a validated run starts only when no run is in flight, and      *)
(* while a run is in flight isLoading is true; so at most one run, at one   *)
(* await, is in flight at any moment.                                       *)

C14_RunsNeverOverlap ==
    [][/\ handleGenerate => ~isLoading
       /\ RunStarts => (pc = "idle" /\ ~isLoading /\ isLoading')
       /\ pc' # "idle" => isLoading'
       /\ (pc # "idle" /\ pc' # "idle") => runs' = runs]_vars

\* A second run in flight, started after the first one ended.
C14_Witness ==
    /\ runs = 2
    /\ startedFrom \in {"done", "failed"}
    /\ pc = "upload"
    /\ isLoading

-----------------------------------------------------------------------------
(* C15: the input of a run is the one captured when the run starts, and no  *)
(* UI event cancels the run.  The starting step captures the mode, file and *)
(* url of the state; while the run is in flight the captured values do not  *)
(* change; a step that changes the mode, file or url of the state leaves    *)
(* the run where it is, still loading; and the file handed to the upload is *)
(* the captured file (file mode) or the download named after the captured   *)
(* url (url mode).                                                          *)

\* A step of the form, not of handleGenerate, while a run is in flight.
InputChanges ==
    /\ pc # "idle"
    /\ <<inputType, file, url>>' # <<inputType, file, url>>

C15_RunInputFixed ==
    [][/\ (RunStarts /\ outcome' = "running") =>
            closure' = [inputType |-> inputType, url |-> url, file |-> file,
                        analyzedVideoUrl |-> analyzedVideoUrl]
       /\ (pc # "idle" /\ pc' # "idle") => closure' = closure
       /\ InputChanges =>
            /\ UNCHANGED <<pc, closure, fileToUpload, calls, statuses, delays,
                           outcome, runs, isLoading>>
            /\ isLoading
       /\ pc' = "upload" =>
            IF closure'.inputType = "url"
            THEN fileToUpload'.name = FileName(closure'.url)
            ELSE fileToUpload' = closure'.file]_vars

\* A url run at its upload after the mode was switched, which cleared url.
C15_Witness ==
    /\ pc = "upload"
    /\ closure.inputType = "url"
    /\ closure.url = <<"a", "/", "v", "?", "q">>
    /\ inputType = "file"
    /\ url = <<>>
    /\ fileToUpload.name = <<"v">>
    /\ isLoading

-----------------------------------------------------------------------------
(* C16: the elapsed-seconds counter is reset when a run ends: in every step *)
(* in which isLoading goes from true to false elapsedTime is 0 afterwards,  *)
(* and elapsedTime is 0 whenever isLoading is false.                        *)

C16_TimerResetAtEnd ==
    [][/\ (isLoading /\ ~isLoading') => elapsedTime' = 0
       /\ ~isLoading' => elapsedTime' = 0]_vars

-----------------------------------------------------------------------------
(* Helpers of the properties of the time functions, written without the     *)
(* operators that model them.                                               *)

Colons(t) == {i \in 1..Len(t) : t[i] = ":"}

PartCount(t) == Cardinality(Colons(t)) + 1

\* The position of the k-th colon of t; 0 before the first part and
\* Len(t) + 1 after the last.
PartEnd(t, k) ==
    IF k = 0 THEN 0
    ELSE IF k = PartCount(t) THEN Len(t) + 1
    ELSE CHOOSE i \in Colons(t) :
            Cardinality({j \in Colons(t) : j < i}) = k - 1

Part(t, k) == SubSeq(t, PartEnd(t, k - 1) + 1, PartEnd(t, k) - 1)

AllDigits(ds) == \A i \in 1..Len(ds) : ds[i] \in {Digits[j] : j \in 1..10}

RECURSIVE Pow10(_)
Pow10(k) == IF k = 0 THEN 1 ELSE 10 * Pow10(k - 1)

RECURSIVE PositionalValue(_)
PositionalValue(ds) ==
    IF ds = <<>> THEN 0
    ELSE DigitValue(Head(ds)) * Pow10(Len(ds) - 1) + PositionalValue(Tail(ds))

\* A part of HH:MM:SS or MM:SS: one digit or more.
FieldPart(p) == p # <<>> /\ AllDigits(p)

WellFormed(v) ==
    /\ v.type = "string"
    /\ PartCount(v.chars) \in {2, 3}
    /\ \A k \in 1..PartCount(v.chars) : FieldPart(Part(v.chars, k))

\* A timestamp was converted by timestampToSeconds.
Converted == codec.stage = "seconds" /\ ~codec.given

-----------------------------------------------------------------------------
(* C17: timestampToSeconds returns a non-negative integer for every string: *)
(* the offset of a well-formed HH:MM:SS or MM:SS text, and 0 for every      *)
(* other text, among them texts with a negative part (-1:30) and texts with *)
(* an empty part (1:).                                                      *)

C17_ParseTotalNonNegative ==
    Converted =>
        /\ codec.n >= 0
        /\ ~WellFormed(codec.ts) => codec.n = 0
        /\ codec.ts.chars = <<"-", "1", ":", "3", "0">> => codec.n = 0
        /\ codec.ts.chars = <<"1", ":">> => codec.n = 0

-----------------------------------------------------------------------------
(* C18: timestampToSeconds splits the text on ':' and returns               *)
(* h*3600 + m*60 + s for exactly 3 numeric parts, m*60 + s for exactly 2    *)
(* numeric parts, and 0 when a part is not numeric, when there are 1 or     *)
(* more than 3 parts, and when the input is empty or not a string.  A part  *)
(* is numeric when Number reads it: an optionally signed run of digits,     *)
(* with spaces around it ignored, or a blank part, which counts as 0.       *)

Unpadded(p) ==
    LET first == CHOOSE i \in 1..Len(p) : p[i] # " " /\ \A j \in 1..(i - 1) : p[j] = " "
        last == CHOOSE i \in 1..Len(p) : p[i] # " " /\ \A j \in (i + 1)..Len(p) : p[j] = " "
    IN  SubSeq(p, first, last)

NumericPart(p) ==
    \/ OnlySpaces(p)
    \/ LET u == Unpadded(p)
       IN  \/ FieldPart(u)
           \/ Head(u) \in {"-", "+"} /\ FieldPart(Tail(u))

PartValue(p) ==
    IF OnlySpaces(p) THEN 0
    ELSE LET u == Unpadded(p)
         IN  IF Head(u) = "-" THEN 0 - PositionalValue(Tail(u))
             ELSE IF Head(u) = "+" THEN PositionalValue(Tail(u))
             ELSE PositionalValue(u)

Offset(v) ==
    IF v.type # "string" \/ v.chars = <<>> THEN 0
    ELSE IF \E k \in 1..PartCount(v.chars) : ~NumericPart(Part(v.chars, k))
    THEN 0
    ELSE IF PartCount(v.chars) = 3
    THEN PartValue(Part(v.chars, 1)) * 3600
           + PartValue(Part(v.chars, 2)) * 60 + PartValue(Part(v.chars, 3))
    ELSE IF PartCount(v.chars) = 2
    THEN PartValue(Part(v.chars, 1)) * 60 + PartValue(Part(v.chars, 2))
    ELSE 0

C18_ParseAlgorithm ==
    Converted =>
        /\ codec.n = Offset(codec.ts)
        /\ codec.ts.chars = <<"0", "0", ":", "0", "0", ":", "0", "5">> =>
             codec.n = 5
        /\ codec.ts.chars = <<"1", ":", "3", "0">> => codec.n = 90
        /\ codec.ts.chars = <<"1", "0", ":", "0", "0">> => codec.n = 600
        /\ PartCount(codec.ts.chars) \notin {2, 3} => codec.n = 0

C18_Witness ==
    /\ Converted
    /\ codec.ts = StringValue(<<"1", "2", ":", "3", "4", ":", "5", "6">>)
    /\ codec.n = 12 * 3600 + 34 * 60 + 56

-----------------------------------------------------------------------------
(* C19: formatting and parsing round-trip.  For every well-formed timestamp *)
(* s (HH:MM:SS or MM:SS, parts of digits) formatDuration(                   *)
(* timestampToSeconds(s)) is canonical: minutes and seconds of two digits   *)
(* below 60, and hours without a leading zero only when there are any       *)
(* (1:05 gives 65 gives 01:05); parsing the canonical text gives the offset *)
(* of s again; and timestampToSeconds(formatDuration(n)) = n for every      *)
(* integer n >= 0.                                                          *)

\* mm:ss or h..h:mm:ss, with mm and ss below 60 and no leading zero in h..h
Canonical(t) ==
    /\ PartCount(t) \in {2, 3}
    /\ \A k \in 1..PartCount(t) : FieldPart(Part(t, k))
    /\ \A k \in (PartCount(t) - 1)..PartCount(t) :
         /\ Len(Part(t, k)) = 2
         /\ PositionalValue(Part(t, k)) < 60
    /\ PartCount(t) = 3 => Head(Part(t, 1)) # "0"

\* A formatted text was parsed again, from a well-formed timestamp or from a
\* duration that is not negative.
RoundTrip ==
    /\ codec.stage = "again"
    /\ IF codec.given THEN codec.n >= 0 ELSE WellFormed(codec.ts)

C19_RoundTrip ==
    RoundTrip =>
        /\ Canonical(codec.text)
        /\ codec.back = codec.n
        /\ codec.ts.chars = <<"1", ":", "0", "5">> =>
             codec.n = 65 /\ codec.text = <<"0", "1", ":", "0", "5">>

\* 2:75 is 03:15 in canonical form.
C19_Witness ==
    /\ RoundTrip
    /\ codec.ts = StringValue(<<"2", ":", "7", "5">>)
    /\ codec.n = 195
    /\ codec.text = <<"0", "3", ":", "1", "5">>
    /\ codec.back = 195

-----------------------------------------------------------------------------
(* C20: formatDuration returns 00:00 for a negative input; for an integer   *)
(* n >= 0 it returns the minutes (n mod 3600) div 60 and the seconds        *)
(* n mod 60, each padded with a zero to 2 digits, after the hours n div     *)
(* 3600 if and only if the hours are more than 0: 2 segments when n < 3600  *)
(* and 3 segments otherwise.                                                *)

TwoDigits(k) == <<Digits[(k \div 10) + 1], Digits[(k % 10) + 1]>>

C20_FormatDuration ==
    codec.stage = "text" =>
        IF codec.n < 0
        THEN codec.text = <<"0", "0", ":", "0", "0">>
        ELSE LET t == codec.text
                 segments == PartCount(t)
             IN  /\ segments = (IF codec.n < 3600 THEN 2 ELSE 3)
                 /\ Part(t, segments - 1) = TwoDigits((codec.n % 3600) \div 60)
                 /\ Part(t, segments) = TwoDigits(codec.n % 60)
                 /\ segments = 3 =>
                      /\ FieldPart(Part(t, 1))
                      /\ Head(Part(t, 1)) # "0"
                      /\ PositionalValue(Part(t, 1)) = codec.n \div 3600

C20_Witness ==
    /\ codec.stage = "text"
    /\ codec.given
    /\ codec.n = 3665
    /\ codec.text = <<"1", ":", "0", "1", ":", "0", "5">>

-----------------------------------------------------------------------------
(* C21: in url mode, when the proxy fetch throws or answers with a          *)
(* non-success status, the run fails in that step with the acquisition      *)
(* error message: the proxy fetch is the only call issued (one fetch, no    *)
(* retry, no upload, status fetch or generation call) and no object URL is  *)
(* created.                                                                 *)

\* The proxy fetch in flight returns and the body of the response is not read.
FetchFails == pc = "fetch" /\ pc' \notin {"fetch", "blob"}

C21_FetchFailureEndsRun ==
    [][FetchFails =>
          /\ pc' = "idle"
          /\ outcome' = "failed"
          /\ ~isLoading'
          /\ error' = "Could not fetch the file from the URL." \o RetrySuffix
          /\ result' = Null
          /\ calls' = <<"proxy">>
          /\ nextUrl' = nextUrl
          /\ liveUrls' \subseteq liveUrls
          /\ runUrl' = NoUrl]_vars

C21_Witness ==
    /\ outcome = "failed"
    /\ pc = "idle"
    /\ calls = <<"proxy">>
    /\ error = "Could not fetch the file from the URL." \o RetrySuffix
    /\ runUrl = NoUrl
    /\ runs = 2

-----------------------------------------------------------------------------
(* C22: a run creates a playable object URL if and only if the declared     *)
(* type of the acquired file starts with video/.  It is created in the step *)
(* that ends the acquisition and issues the upload call, so at most once    *)
(* per run, and it is the URL the state then holds; no other step creates   *)
(* one; and for a file of another type analyzedVideoUrl is null from the    *)
(* start of the run to its end.                                             *)

DeclaredVideo(f) ==
    /\ Len(f.type) >= 6
    /\ SubSeq(f.type, 1, 6) = <<"v", "i", "d", "e", "o", "/">>

\* The step that has the file of the run and issues the upload call.
AcquisitionEnds == pc # "upload" /\ pc' = "upload"

C22_ObjectUrlIffVideo ==
    [][/\ AcquisitionEnds =>
            /\ Last(calls') = "upload"
            /\ Count(calls', "upload") = 1
            /\ IF DeclaredVideo(fileToUpload')
               THEN /\ nextUrl' = nextUrl + 1
                    /\ runUrl' = nextUrl
                    /\ analyzedVideoUrl' = nextUrl
                    /\ nextUrl \in liveUrls' /\ nextUrl \notin liveUrls
               ELSE /\ nextUrl' = nextUrl
                    /\ runUrl' = NoUrl
                    /\ analyzedVideoUrl' = NoUrl
       /\ ~AcquisitionEnds =>
            /\ nextUrl' = nextUrl
            /\ liveUrls' \subseteq liveUrls
            /\ pc # "idle" => runUrl' = runUrl
       /\ (pc' \in {"fetch", "blob"}) =>
            runUrl' = NoUrl /\ analyzedVideoUrl' = NoUrl
       /\ (pc # "idle" /\ runUrl = NoUrl /\ ~AcquisitionEnds) =>
            analyzedVideoUrl' = NoUrl]_vars

\* An audio file at the status fetch of a second run: no URL for this run.
C22_Witness ==
    /\ pc = "get"
    /\ fileToUpload.type = AudioType
    /\ runs = 2
    /\ nextUrl = 2
    /\ runUrl = NoUrl
    /\ analyzedVideoUrl = NoUrl

-----------------------------------------------------------------------------
(* C23: while a remote stage of a run is awaited the progress message is    *)
(* the non-empty message of that stage (proxy fetch and the reading of its  *)
(* body, upload, status fetches and their delays, generation call), the     *)
(* four messages differ, a step of a run never takes the message back to    *)
(* an earlier stage, and the step that ends the run, on success or on       *)
(* failure, leaves the message empty.                                       *)

\* The position of a progress message in the order of the stages.
StageOf(message) ==
    CASE message = "" -> 0
      [] message = LoadFetching -> 1
      [] message = LoadUploading -> 2
      [] message = LoadReading -> 3
      [] message = LoadAnalyzing -> 4
      [] OTHER -> 5

StageAwaited ==
    CASE pc \in {"fetch", "blob"} -> 1
      [] pc = "upload" -> 2
      [] pc \in {"get", "delay"} -> 3
      [] pc = "generate" -> 4
      [] OTHER -> 0

C23_ProgressMessages ==
    [][/\ Cardinality({"", LoadFetching, LoadUploading, LoadReading,
                       LoadAnalyzing}) = 5
       /\ pc' # "idle" =>
            /\ loadingMessage' # ""
            /\ StageOf(loadingMessage') = StageAwaited'
       /\ (pc # "idle" /\ pc' # "idle") =>
            StageOf(loadingMessage') >= StageOf(loadingMessage)
       /\ (pc # "idle" /\ pc' = "idle") => loadingMessage' = ""
       /\ RunEnds => loadingMessage' = ""]_vars

\* The generation call of a url run is awaited under its own message.
C23_Witness ==
    /\ pc = "generate"
    /\ calls = <<"proxy", "upload", "status", "generate">>
    /\ loadingMessage = LoadAnalyzing
    /\ loadingMessage # ""

-----------------------------------------------------------------------------
(* C24: after handleInputTypeChange the state stays reset until a run is    *)
(* started or a file is selected, also when a run was in flight at the      *)
(* switch.  While a run is in flight no run can be started and no file      *)
(* selected, and only handleInputTypeChange changes the mode; so whenever   *)
(* the mode of the state differs from the mode the run in flight captured,  *)
(* result is null, error is empty and analyzedVideoUrl is null, before and  *)
(* after every step.                                                        *)

\* The state handleInputTypeChange leaves.
StateReset == result = Null /\ error = "" /\ analyzedVideoUrl = NoUrl

\* The mode was switched since the run in flight started.
SwitchedInFlight == pc # "idle" /\ inputType # closure.inputType

C24_SwitchKeepsStateReset ==
    [][SwitchedInFlight => StateReset /\ StateReset']_vars

-----------------------------------------------------------------------------
(* C25: in every reachable state analyzedVideoUrl is null or an object URL  *)
(* that was created and is not revoked; a step that revokes the URL the     *)
(* state holds leaves the state with null or with a URL created in that     *)
(* step.                                                                    *)

PlayerUrlLive == analyzedVideoUrl = NoUrl \/ analyzedVideoUrl \in liveUrls

\* The step revokes the URL the state holds.
HeldUrlRevoked == analyzedVideoUrl \in liveUrls /\ analyzedVideoUrl \notin liveUrls'

C25_PlayerNeverOnRevokedUrl ==
    [][/\ PlayerUrlLive
       /\ PlayerUrlLive'
       /\ HeldUrlRevoked =>
            \/ analyzedVideoUrl' = NoUrl
            \/ analyzedVideoUrl' = nextUrl /\ nextUrl' = nextUrl + 1]_vars

\* The URL of a finished run was revoked by a later handler.
C25_Witness ==
    /\ pc = "idle"
    /\ outcome = "done"
    /\ runUrl # NoUrl
    /\ runUrl \notin liveUrls
    /\ analyzedVideoUrl = NoUrl

-----------------------------------------------------------------------------
(* C26: isLoading is true exactly while a run is in flight: it becomes true *)
(* only in a step that starts a validated run, it is false after the last   *)
(* step of that run on every exit path, and whenever it is false the        *)
(* progress message is empty.                                               *)

C26_LoadingIffInFlight ==
    [][/\ (~isLoading /\ isLoading') => RunStarts
       /\ isLoading' <=> pc' # "idle"
       /\ RunEnds => ~isLoading'
       /\ ~isLoading' => loadingMessage' = ""]_vars

-----------------------------------------------------------------------------
(* C27: whenever result is null activeTab is 'chapters'; a tab other than   *)
(* 'chapters' is active only while result is an object holding a non-empty  *)
(* section for it; and every step that changes result leaves activeTab at   *)
(* 'chapters'.                                                              *)

\* result holds something to show under the tab.
HoldsSection(tab) ==
    /\ result.t = "object"
    /\ result.keys = <<SectionKey(tab)>>
    /\ result.member.t \notin {"null", "undefined"}
    /\ result.member.t = "array" => Len(result.member.items) > 0

TabShowsResult ==
    /\ activeTab \in Tabs
    /\ result = Null => activeTab = "chapters"
    /\ activeTab # "chapters" => HoldsSection(activeTab)

C27_ActiveTabHasSection ==
    [][/\ TabShowsResult
       /\ TabShowsResult'
       /\ result' # result => activeTab' = "chapters"]_vars

\* A second run succeeded and the evaluation tab was opened.
C27_Witness ==
    /\ runs = 2
    /\ outcome = "done"
    /\ activeTab = "evaluation"
    /\ result # Null

-----------------------------------------------------------------------------
(* C28: a failed validation in handleGenerate changes the error message and *)
(* nothing else: result, analyzedVideoUrl, videoMetadata, activeTab, file,  *)
(* url, the mode, isLoading, the progress message and the live object URLs  *)
(* are as before, so the result and the player of an earlier run stay next  *)
(* to the validation error.                                                 *)

C28_RejectionChangesErrorOnly ==
    [][(NothingToAnalyze /\ handleGenerate) =>
          /\ error' # ""
          /\ UNCHANGED <<result, analyzedVideoUrl, videoMetadata, activeTab,
                         file, url, inputType, isLoading, loadingMessage,
                         liveUrls, nextUrl, elapsedTime>>]_vars

\* The result and the player of a url run next to the error for an empty url.
C28_Witness ==
    /\ error = MsgEnterUrl
    /\ Trim(url) = <<>>
    /\ outcome = "done"
    /\ result # Null
    /\ analyzedVideoUrl # NoUrl
    /\ analyzedVideoUrl \in liveUrls
    /\ ~isLoading

-----------------------------------------------------------------------------
(* C29: the elapsed counter ticks only while a run is in flight.  It is set *)
(* to 0 in the step in which isLoading becomes true, it changes by 1 per    *)
(* tick while isLoading stays true, it does not change while isLoading is   *)
(* false, every change of it happens in a step of a run in flight or in the *)
(* step that starts one, and at most one interval exists at any time.       *)

C29_TimerTicksInFlightOnly ==
    [][/\ (~isLoading /\ isLoading') => elapsedTime' = 0
       /\ (isLoading /\ isLoading' /\ elapsedTime' # elapsedTime) =>
            elapsedTime' = elapsedTime + 1
       /\ (~isLoading /\ ~isLoading') => elapsedTime' = elapsedTime
       /\ elapsedTime' # elapsedTime => (pc # "idle" \/ RunStarts)
       /\ interval \in {0, 1} /\ interval' \in {0, 1}]_vars

====
